---- MODULE Spec2Model ----
(***************************************************************************)
(* go-enumerator: the command of internal/cmd/root.go (type lookup,        *)
(* constant discovery, validation, code generation, output) followed by a  *)
(* client that calls the methods of the generated file.                    *)
(*                                                                         *)
(* A Go string is the sequence of its bytes (UTF-8 of the source text).    *)
(* A constant.Value is a record [k |-> "Int", v |-> n] or                  *)
(* [k |-> "String", v |-> bytes].                                          *)
(***************************************************************************)
EXTENDS Integers, Sequences, FiniteSets, TLC

VARIABLES
    pc,             \* position of rootCmd.RunE / of the client of the generated code
    err,            \* the error RunE returns ("" while there is none)
    defs,           \* info.Defs as findTypeDeclByPosition sees it: the objects
    line,           \* the line flag / $GOLINE
    todo,           \* objects the range over info.Defs has not yet visited
    ret,            \* findTypeDeclByPosition: var ret *types.TypeName
    closestObject,  \* findTypeDeclByPosition: var closestObject types.Object
    closest,        \* findTypeDeclByPosition: closest := math.MaxInt32
    tn,             \* the resolved type's name (empty before)
    consts,         \* the source's constant declarations of the target type
    kind,           \* constant.Kind findConstantsOfType returns
    vs,             \* []constNameAndString, sorted
    f,              \* generateEnumCode's *jen.File: TRUE once built
    output,         \* the output destination: "untouched", "truncated", "written"
    recv,           \* the client's variable of the enum type
    res             \* what the client's last call returned

vars == <<pc, err, defs, line, todo, ret, closestObject, closest, tn,
          consts, kind, vs, f, output, recv, res>>

locatorVars == <<defs, line, todo, ret, closestObject, closest>>
enumVars    == <<consts, kind, vs, f>>
clientVars  == <<recv, res>>

(* ------------------------------ bounds -------------------------------- *)
MaxMembers == 3     \* constants declared of the target type
MaxDefs    == 3     \* objects in info.Defs seen by the type lookup
MaxLine    == 3     \* source lines of those objects

(* ----------------------------- constants ------------------------------ *)
MaxInt32 == 2147483647
Nil == "nil"
NoObject == [what |-> "nil", line |-> 0, inFile |-> FALSE]   \* a nil object reference

NoResult == [op |-> "none"]

(* ------------------------- type lookup -------------------------------- *)
(* An object of info.Defs: what it is (a *types.TypeName, another object,   *)
(* or the nil entry of a package name or symbolic variable, which has no    *)
(* position), the line of its position and whether                          *)
(* sameFile(p.Filename, inputFileName).                                     *)
NilEntry == [what |-> "nilObject", line |-> 0, inFile |-> FALSE]

ObjectUniverse ==
    [what : {"TypeName", "Var"}, line : 1..MaxLine, inFile : BOOLEAN] \cup {NilEntry}

RECURSIVE SetsUpTo(_, _)
SetsUpTo(U, k) ==
    IF k = 0 THEN {{}}
    ELSE LET P == SetsUpTo(U, k - 1)
         IN  P \cup {s \cup {x} : s \in P, x \in U}

TypeNameOf(object) == <<75, 105, 110, 100>>      \* every TypeName is called Kind

FindTypeDeclByPositionEnter ==
    /\ pc = "findTypeDecl"
    /\ \E ds \in SetsUpTo(ObjectUniverse, MaxDefs), l \in 1..MaxLine :
          /\ defs' = ds
          /\ line' = l
          /\ todo' = ds
    /\ ret' = NoObject
    /\ closestObject' = NoObject
    /\ closest' = MaxInt32
    /\ pc' = "rangeDefs"
    /\ UNCHANGED <<err, tn, output>>
    /\ UNCHANGED enumVars
    /\ UNCHANGED clientVars

(* One iteration of `for _, object := range info.Defs`; a Go map is ranged  *)
(* over in an unspecified order, so any unvisited object may come next.     *)
Skipped(object) ==
    \/ object.what = "nilObject"
    \/ ~object.inFile
    \/ object.line < line
    \/ closest < object.line

FindTypeDeclByPositionIterate ==
    /\ pc = "rangeDefs"
    /\ \E object \in todo :
          /\ todo' = todo \ {object}
          /\ IF Skipped(object)
             THEN UNCHANGED <<ret, closestObject, closest>>
             ELSE /\ closestObject' = object
                  /\ IF object.what = "TypeName"
                     THEN ret' = object /\ closest' = object.line
                     ELSE ret' = NoObject /\ UNCHANGED closest
    /\ UNCHANGED <<pc, err, defs, line, tn, output>>
    /\ UNCHANGED enumVars
    /\ UNCHANGED clientVars

(* The loop is over: findTypeDeclByPosition returns ret or an error, and its *)
(* locals are gone.                                                         *)
RangeDone == pc = "rangeDefs" /\ todo = {}

FindTypeDeclByPositionReturn ==
    /\ RangeDone
    /\ IF ret = NoObject
       THEN /\ pc' = "failed"
            /\ err' = IF closestObject # NoObject
                      THEN "failed to determine type: closest declaration is not a named type"
                      ELSE "failed to determine type"
            /\ UNCHANGED tn
       ELSE /\ pc' = "findConstants"
            /\ tn' = TypeNameOf(ret)
            /\ UNCHANGED err
    /\ defs' = {} /\ line' = 0 /\ todo' = {}
    /\ ret' = NoObject /\ closestObject' = NoObject /\ closest' = MaxInt32
    /\ UNCHANGED <<output>>
    /\ UNCHANGED enumVars
    /\ UNCHANGED clientVars

(* findTypeDeclByName: the first *types.TypeName of info.Defs whose name is *)
(* the type flag. Every TypeName of the model is called Kind.               *)
FindTypeDeclByName ==
    /\ pc = "findTypeDecl"
    /\ \E ds \in SetsUpTo(ObjectUniverse, 1), name \in {<<75, 105, 110, 100>>, <<88>>} :
          /\ IF \E object \in ds : object.what = "TypeName" /\ TypeNameOf(object) = name
             THEN /\ pc' = "findConstants"
                  /\ tn' = name
                  /\ UNCHANGED err
             ELSE /\ pc' = "failed"
                  /\ err' = "type not found"
                  /\ UNCHANGED tn
    /\ UNCHANGED output
    /\ UNCHANGED locatorVars
    /\ UNCHANGED enumVars
    /\ UNCHANGED clientVars

(* ----------------------------- strings -------------------------------- *)
IsSpace(b) == b \in {9, 10, 11, 12, 13, 32}           \* unicode.IsSpace, ASCII range

RECURSIVE TrimLeftSpace(_)
TrimLeftSpace(s) ==                                   \* strings.TrimLeftFunc(s, unicode.IsSpace)
    IF s = <<>> THEN <<>>
    ELSE IF IsSpace(Head(s)) THEN TrimLeftSpace(Tail(s)) ELSE s

RECURSIVE TrimRightSpace(_)
TrimRightSpace(s) ==                                  \* strings.TrimRightFunc(s, unicode.IsSpace)
    IF s = <<>> THEN <<>>
    ELSE IF IsSpace(s[Len(s)]) THEN TrimRightSpace(SubSeq(s, 1, Len(s) - 1)) ELSE s

(* go-strcase works rune by rune and knows ASCII letters only; the bytes of *)
(* a multi-byte rune are all >= 128, so byte by byte gives the same result. *)
IsUpper(ch) == 65 <= ch /\ ch <= 90
IsLower(ch) == 97 <= ch /\ ch <= 122
IsDelimiter(ch) == ch \in {45, 95, 32, 9, 10, 13}
ToUpper(ch) == IF IsLower(ch) THEN ch - 32 ELSE ch
ToLower(ch) == IF IsUpper(ch) THEN ch + 32 ELSE ch
RuneAt(s, i) == IF 1 <= i /\ i <= Len(s) THEN s[i] ELSE 0

RECURSIVE Concat(_)
Concat(ss) == IF ss = <<>> THEN <<>> ELSE Head(ss) \o Concat(Tail(ss))

CamelCaseRune(s, i, upper) ==
    LET prev == RuneAt(s, i - 1)
        curr == s[i]
        next == RuneAt(s, i + 1)
    IN  IF IsDelimiter(curr) THEN <<>>
        ELSE IF IsDelimiter(prev) \/ (upper /\ prev = 0) THEN <<ToUpper(curr)>>
        ELSE IF IsLower(prev) THEN <<curr>>
        ELSE IF IsUpper(prev) /\ IsUpper(curr) /\ IsLower(next) THEN <<curr>>
        ELSE <<ToLower(curr)>>

CamelCase(s, upper) == Concat([i \in 1..Len(s) |-> CamelCaseRune(s, i, upper)])

DelimiterCaseRune(s, i, delimiter, upperCase) ==
    LET prev == RuneAt(s, i - 1)
        curr == s[i]
        next == RuneAt(s, i + 1)
        adj  == IF upperCase THEN ToUpper(curr) ELSE ToLower(curr)
    IN  IF i = Len(s)
        THEN (IF IsUpper(curr) /\ IsLower(prev) THEN <<delimiter>> ELSE <<>>) \o <<adj>>
        ELSE IF IsDelimiter(curr)
             THEN (IF IsDelimiter(prev) THEN <<>> ELSE <<delimiter>>)
        ELSE IF IsUpper(curr)
             THEN (IF IsLower(prev) \/ (IsUpper(prev) /\ IsLower(next))
                   THEN <<delimiter>> ELSE <<>>) \o <<adj>>
        ELSE <<adj>>

DelimiterCase(s, delimiter, upperCase) ==
    Concat([i \in 1..Len(s) |-> DelimiterCaseRune(s, i, delimiter, upperCase)])

NamingStrategies ==
    {"none", "camelCase", "PascalCase", "snake_case", "UPPER_SNAKE_CASE", "kebab-case"}

ApplyNamingStrategy(namingStrategy, name) ==
    CASE namingStrategy = "camelCase"        -> CamelCase(name, FALSE)
      [] namingStrategy = "PascalCase"       -> CamelCase(name, TRUE)
      [] namingStrategy = "snake_case"       -> DelimiterCase(name, 95, FALSE)
      [] namingStrategy = "UPPER_SNAKE_CASE" -> DelimiterCase(name, 95, TRUE)
      [] namingStrategy = "kebab-case"       -> DelimiterCase(name, 45, FALSE)
      [] OTHER                               -> name

(* -------------------------- constant discovery ------------------------ *)
IntVal(n) == [k |-> "Int", v |-> n]
StrVal(s) == [k |-> "String", v |-> s]

(* The identifiers of the declared constants, in source order:             *)
(* B, A, e-acute (two bytes of UTF-8), aB.                                  *)
NameAt == << <<66>>, <<65>>, <<195, 169>>, <<97, 66>>, <<67, 100>> >>

RawValues(k) ==
    IF k = "Int" THEN {IntVal(n) : n \in 0..2}
    ELSE {StrVal(<<>>), StrVal(<<65>>), StrVal(<<66>>)}

(* CommentGroup.Text() of the comment group on the constant's line: none,   *)
(* "A\n" (of `// A`), "   Z\n" (of `/*   Z */`).                            *)
CommentTexts == {<<>>, <<65, 10>>, <<32, 32, 32, 90, 10>>}

(* The i-th declaration stands at byte offset 2*i of the one input file.    *)
(* Declarations may share a line (const B Kind = 0; const A Kind = 1) and   *)
(* the comment of a constant's line may stand before its identifier         *)
(* (const /*   Z */ B Kind = 0), so the leading space of a comment's text   *)
(* is not bounded by the distance to the next declaration.                  *)
OffsetAt(i) == 2 * i

Decl(i, raw, text) == [Name |-> NameAt[i], Raw |-> raw, Off |-> OffsetAt(i), Text |-> text]

RECURSIVE DeclSeqs(_, _)
DeclSeqs(k, n) ==
    IF n = 0 THEN {<<>>}
    ELSE {Append(ds, Decl(n, raw, text)) :
              ds \in DeclSeqs(k, n - 1), raw \in RawValues(k), text \in CommentTexts}

(* findStringInLineComment: the override found in the comment group of the  *)
(* constant's line, and the *types.Const it returns in place of c.          *)
FindStringInLineComment(c) ==
    LET totalText       == c.Text
        leftTrimmedText == TrimLeftSpace(totalText)
        bothTrimmedText == TrimRightSpace(leftTrimmedText)
    IN  IF bothTrimmedText = <<>>
        THEN [ok |-> FALSE, str |-> <<>>, const |-> [Pos |-> 0, Val |-> StrVal(<<>>)]]
        ELSE [ok    |-> TRUE,
              str   |-> bothTrimmedText,
              const |-> [Pos |-> c.Off + Len(totalText) - Len(leftTrimmedText),
                         Val |-> StrVal(bothTrimmedText)]]

(* The constNameAndString findConstantsOfType appends for one constant.     *)
ConstNameAndString(c, namingStrategy) ==
    LET lc == FindStringInLineComment(c)
    IN  IF lc.ok
        THEN [Const |-> lc.const, Name |-> c.Name, String |-> lc.str]
        ELSE [Const  |-> [Pos |-> c.Off, Val |-> c.Raw],
              Name   |-> c.Name,
              String |-> ApplyNamingStrategy(namingStrategy, c.Name)]

(* sort.Slice(ret, less) with less comparing the offsets of Const.Pos():    *)
(* all constants are of one file, and no two offsets are equal. Each        *)
(* element in turn is inserted before the first element it is less than.    *)
Less(a, b) == a.Const.Pos < b.Const.Pos

RECURSIVE InsertSorted(_, _)
InsertSorted(s, x) ==
    IF s = <<>> THEN <<x>>
    ELSE IF Less(x, Head(s)) THEN <<x>> \o s
    ELSE <<Head(s)>> \o InsertSorted(Tail(s), x)

RECURSIVE SortSlice(_)
SortSlice(s) ==
    IF s = <<>> THEN <<>> ELSE InsertSorted(SortSlice(Tail(s)), Head(s))

(* The orders in which the range over info.Defs may meet n constants: the   *)
(* rotations of the source order and of its reverse (up to three constants  *)
(* these are all the orders there are).                                     *)
MapOrders(n) ==
    IF n = 0 THEN {<<>>}
    ELSE {[i \in 1..n |-> ((i + r - 1) % n) + 1] : r \in 0..(n - 1)}
         \cup {[i \in 1..n |-> ((n - i + r) % n) + 1] : r \in 0..(n - 1)}

(* findConstantsOfType over the constants ds of the target type, ranged     *)
(* over in the map order `order`: the elements appended, then sorted.       *)
Appended(ds, namingStrategy) ==
    [i \in 1..Len(ds) |-> ConstNameAndString(ds[i], namingStrategy)]

FoundConstants(found, order) == SortSlice([i \in 1..Len(found) |-> found[order[i]]])

FindConstantsOfType ==
    /\ pc = "findConstants"
    /\ \E k \in {"Int", "String"}, n \in 0..MaxMembers :
       LET orders == MapOrders(n)
       IN  \E ds \in DeclSeqs(k, n), namingStrategy \in NamingStrategies :
              LET found == Appended(ds, namingStrategy)
              IN  /\ consts' = ds
                  /\ vs' \in {FoundConstants(found, order) : order \in orders}
                  /\ kind' = IF n = 0 THEN "Unknown" ELSE k
                  /\ IF n = 0
                     THEN pc' = "failed" /\ err' = "no constants of type found"
                     ELSE pc' = "generateEnumCode" /\ UNCHANGED err
    /\ UNCHANGED <<tn, f, output>>
    /\ UNCHANGED locatorVars
    /\ UNCHANGED clientVars

(* ------------------------------ validation ---------------------------- *)
RECURSIVE Decimal(_)
Decimal(n) ==                                         \* strconv: a non-negative integer
    IF n < 10 THEN <<48 + n>> ELSE Decimal(n \div 10) \o <<48 + (n % 10)>>

(* constant.Value.ExactString(): the decimal digits of an integer, the      *)
(* quoted text of a string (the texts here need no escapes).                *)
ExactString(val) ==
    IF val.k = "Int"
    THEN (IF val.v < 0 THEN <<45>> \o Decimal(-val.v) ELSE Decimal(val.v))
    ELSE <<34>> \o val.v \o <<34>>

AnyOverrides(cs) == \E i \in 1..Len(cs) : cs[i].String # cs[i].Name

(* The uniqueness loop of generateEnumCode from element i on, with the      *)
(* three maps as sets; "" when the loop ends without an error.              *)
RECURSIVE ValidateFrom(_, _, _, _, _)
ValidateFrom(cs, i, uniqueStrings, uniqueNames, uniqueValues) ==
    IF i > Len(cs) THEN ""
    ELSE LET c    == cs[i]
             str  == c.String
             name == c.Name
             repr == ExactString(c.Const.Val)
         IN  IF str \in uniqueStrings THEN "duplicate string found"
             ELSE IF name \in uniqueNames THEN "duplicate name found"
             ELSE IF str \in uniqueNames THEN "string collides with existing name"
             ELSE IF repr \in uniqueValues THEN "duplicate value found"
             ELSE ValidateFrom(cs, i + 1, uniqueStrings \cup {str},
                               uniqueNames \cup {name}, uniqueValues \cup {repr})

Validate(cs) == ValidateFrom(cs, 1, {}, {}, {})

GenerateEnumCode ==
    /\ pc = "generateEnumCode"
    /\ err' = Validate(vs)
    /\ IF err' = ""
       THEN f' = TRUE /\ pc' = "openOutputFile"
       ELSE f' = FALSE /\ pc' = "failed"
    /\ UNCHANGED <<tn, consts, kind, vs, output>>
    /\ UNCHANGED locatorVars
    /\ UNCHANGED clientVars

(* -------------------------------- output ------------------------------ *)
(* openOutputFile: <STDOUT> and <STDERR> are handed over as they are; any   *)
(* other name goes through os.Create, which creates or truncates the file   *)
(* or fails.                                                                *)
OpenOutputFile ==
    /\ pc = "openOutputFile"
    /\ \E name \in {"<STDOUT>", "kind_enum.go"}, created \in BOOLEAN :
          IF name = "<STDOUT>"
          THEN pc' = "render" /\ output' = "opened" /\ UNCHANGED err
          ELSE IF created
               THEN pc' = "render" /\ output' = "truncated" /\ UNCHANGED err
               ELSE pc' = "failed" /\ err' = "os.Create failed" /\ UNCHANGED output
    /\ UNCHANGED <<tn>>
    /\ UNCHANGED locatorVars
    /\ UNCHANGED enumVars
    /\ UNCHANGED clientVars

ZeroValue(k) == IF k = "String" THEN StrVal(<<>>) ELSE IntVal(0)

(* f.Render(out): jen renders the file to source text, formats it and       *)
(* writes it to out; it returns an error when the text does not format      *)
(* (a receiver flag that is no identifier) or the write fails.              *)
Render ==
    /\ pc = "render"
    /\ \E rendered \in BOOLEAN :
          IF rendered
          THEN /\ pc' = "done" /\ output' = "written" /\ UNCHANGED err
               /\ recv' = ZeroValue(kind)
          ELSE /\ pc' = "failed" /\ err' = "render failed" /\ UNCHANGED output
               /\ UNCHANGED recv
    /\ UNCHANGED <<tn, res>>
    /\ UNCHANGED locatorVars
    /\ UNCHANGED enumVars

(* --------------------------- the generated code ----------------------- *)
(* An identifier of the generated file denotes the constant of that name    *)
(* in the package's source: its declared value.                             *)
ValueOfId(ds, name) == ds[CHOOSE i \in 1..Len(ds) : ds[i].Name = name].Raw

(* An expression switch runs the first case, top to bottom, whose value     *)
(* equals the tag; 0 stands for the default.                                *)
FirstCase(caseValues, tag) ==
    IF \E i \in 1..Len(caseValues) : caseValues[i] = tag
    THEN CHOOSE i \in 1..Len(caseValues) :
             /\ caseValues[i] = tag
             /\ \A j \in 1..(i - 1) : caseValues[j] # tag
    ELSE 0

IdCases(ds, cs) == [i \in 1..Len(cs) |-> ValueOfId(ds, cs[i].Name)]

(* generateNextMethod: case c.Name: return cs[(i+1) % len(cs)].Name, and    *)
(* default: return cs[0].Name.                                              *)
NextOf(ds, cs, r) ==
    LET i == FirstCase(IdCases(ds, cs), r)
    IN  IF i = 0 THEN ValueOfId(ds, cs[1].Name)
        ELSE ValueOfId(ds, cs[(i % Len(cs)) + 1].Name)

(* fmt.Sprintf("%s(%d)", tn.Name(), r) *)
Fallback(name, r) == name \o <<40>> \o ExactString(r) \o <<41>>

(* generateStringMethod *)
StringOf(ds, cs, k, name, r) ==
    IF k = "String"
    THEN LET overridden == SelectSeq(cs, LAMBDA c : c.Name # c.String)
             i          == FirstCase(IdCases(ds, overridden), r)
         IN  IF AnyOverrides(cs) /\ i # 0 THEN overridden[i].String ELSE r.v
    ELSE LET i == FirstCase(IdCases(ds, cs), r)
         IN  IF i # 0 THEN cs[i].String ELSE Fallback(name, r)

(* utf8.DecodeRuneInString: the first rune of s and its width in bytes;     *)
(* (RuneError, 1) for an encoding that is not valid, (RuneError, 0) for "". *)
RuneError == 65533
IsCont(s, i) == i <= Len(s) /\ 128 <= s[i] /\ s[i] <= 191

DecodeRuneInString(s) ==
    IF s = <<>> THEN [r |-> RuneError, size |-> 0]
    ELSE LET b == s[1]
         IN  IF b < 128 THEN [r |-> b, size |-> 1]
             ELSE IF 194 <= b /\ b <= 223 /\ IsCont(s, 2)
                  THEN [r |-> (b - 192) * 64 + (s[2] - 128), size |-> 2]
             ELSE IF 224 <= b /\ b <= 239 /\ IsCont(s, 2) /\ IsCont(s, 3)
                     /\ (b = 224 => s[2] >= 160) /\ (b = 237 => s[2] <= 159)
                  THEN [r |-> (b - 224) * 4096 + (s[2] - 128) * 64 + (s[3] - 128),
                        size |-> 3]
             ELSE IF 240 <= b /\ b <= 244 /\ IsCont(s, 2) /\ IsCont(s, 3) /\ IsCont(s, 4)
                     /\ (b = 240 => s[2] >= 144) /\ (b = 244 => s[2] <= 143)
                  THEN [r |-> (b - 240) * 262144 + (s[2] - 128) * 4096
                              + (s[3] - 128) * 64 + (s[4] - 128),
                        size |-> 4]
             ELSE [r |-> RuneError, size |-> 1]

(* The elements of the []byte{...} literal generateBytesMethod writes for   *)
(* the display string n: one rune literal per rune, up to the first         *)
(* RuneError. A rune literal stands for its code point as the byte; Go      *)
(* rejects one above 255 in a []byte literal.                               *)
RECURSIVE RuneLiterals(_)
RuneLiterals(n) ==
    LET d == DecodeRuneInString(n)
    IN  IF Len(n) > 0 /\ d.r # RuneError
        THEN <<d.r>> \o RuneLiterals(SubSeq(n, d.size + 1, Len(n)))
        ELSE <<>>

(* generateBytesMethod *)
BytesOf(ds, cs, k, name, r) ==
    IF k = "String"
    THEN LET overridden == SelectSeq(cs, LAMBDA c : c.Name # c.String)
             i          == FirstCase(IdCases(ds, overridden), r)
         IN  IF AnyOverrides(cs) /\ i # 0 THEN overridden[i].String ELSE r.v
    ELSE LET i == FirstCase(IdCases(ds, cs), r)
         IN  IF i # 0 THEN RuneLiterals(cs[i].String) ELSE Fallback(name, r)

(* generateDefinedMethod: one case listing Const.Val().ExactString() of     *)
(* every element verbatim; the tag equals a listed literal when the         *)
(* literal is the exact text of the tag's value.                            *)
DefinedOf(cs, r) ==
    \E i \in 1..Len(cs) : ExactString(cs[i].Const.Val) = ExactString(r)

(* generateTextMarshal *)
MarshalTextOf(ds, cs, k, name, r) == [bytes |-> BytesOf(ds, cs, k, name, r), err |-> Nil]

StringCases(cs) == [i \in 1..Len(cs) |-> cs[i].String]

(* generateTextUnmarshal: the receiver after the call, and the error.       *)
UnmarshalTextOf(ds, cs, name, r, x) ==
    LET i == FirstCase(StringCases(cs), x)
    IN  IF i # 0
        THEN [recv |-> ValueOfId(ds, cs[i].Name), err |-> Nil, shown |-> <<>>, type |-> <<>>]
        ELSE [recv |-> r, err |-> "failed to parse value %v into %T", shown |-> x,
              type |-> name]

(* scanState.Token(true, nil): leading space is skipped, the token is the   *)
(* run of non-space bytes that follows.                                     *)
RECURSIVE NonSpacePrefix(_)
NonSpacePrefix(s) ==
    IF s = <<>> \/ IsSpace(Head(s)) THEN <<>> ELSE <<Head(s)>> \o NonSpacePrefix(Tail(s))

Token(input) == NonSpacePrefix(TrimLeftSpace(input))

(* A variant of Scan that clears the receiver before it looks the token up, *)
(* and so loses the receiver's value when it returns an error.              *)
ScanClearsFirst(ds, cs, name, r, input, readOk) ==
    LET token == Token(input)
        i     == FirstCase(StringCases(cs), token)
        zero  == IF r.k = "String" THEN StrVal(<<>>) ELSE IntVal(0)
    IN  IF ~readOk
        THEN [recv |-> zero, err |-> "read error", shown |-> <<>>, type |-> <<>>]
        ELSE IF i # 0
        THEN [recv |-> ValueOfId(ds, cs[i].Name), err |-> Nil, shown |-> <<>>, type |-> <<>>]
        ELSE [recv |-> zero, err |-> "unknown %s value: %s", shown |-> token, type |-> name]

(* generateScanMethod; readOk is whether Token returned no error.           *)
ScanOf(ds, cs, name, r, input, readOk) ==
    LET token == Token(input)
        i     == FirstCase(StringCases(cs), token)
    IN  IF ~readOk
        THEN [recv |-> r, err |-> "read error", shown |-> <<>>, type |-> <<>>]
        ELSE IF i # 0
        THEN [recv |-> ValueOfId(ds, cs[i].Name), err |-> Nil, shown |-> <<>>, type |-> <<>>]
        ELSE [recv |-> r, err |-> "unknown %s value: %s", shown |-> token, type |-> name]

(* generateCompileCheckFunction: the value the guard of element c holds     *)
(* the constant c.Name against: the bytes of constant.StringVal(Val) for    *)
(* the text kind, the text Val.ExactString() otherwise.                     *)
GuardValue(c, k) ==
    IF k = "String" THEN c.Const.Val.v ELSE ExactString(c.Const.Val)

(* ------------------------------ the client ---------------------------- *)
(* Values a variable of the enum type may hold: what a constant may be      *)
(* declared as, and one value more.                                         *)
ReceiverValues(k) ==
    RawValues(k) \cup (IF k = "Int" THEN {IntVal(3)} ELSE {StrVal(<<90>>)})

(* Texts the client hands to Scan and UnmarshalText:                        *)
(* "A", "Z", e-acute in UTF-8, " B".                                        *)
InputTexts == {<<65>>, <<90>>, <<195, 169>>, <<32, 66>>}

ClientConvert ==                                      \* recv = Kind(v)
    /\ pc = "done"
    /\ \E v \in ReceiverValues(kind) : recv' = v
    /\ res' = [op |-> "convert"]
    /\ UNCHANGED <<pc, err, tn, output>>
    /\ UNCHANGED locatorVars
    /\ UNCHANGED enumVars

CallNext ==                                           \* recv = recv.Next()
    /\ pc = "done"
    /\ recv' = NextOf(consts, vs, recv)
    /\ res' = [op |-> "Next"]
    /\ UNCHANGED <<pc, err, tn, output>>
    /\ UNCHANGED locatorVars
    /\ UNCHANGED enumVars

CallString ==
    /\ pc = "done"
    /\ res' = [op |-> "String", val |-> StringOf(consts, vs, kind, tn, recv)]
    /\ UNCHANGED <<pc, err, tn, output, recv>>
    /\ UNCHANGED locatorVars
    /\ UNCHANGED enumVars

CallBytes ==
    /\ pc = "done"
    /\ res' = [op |-> "Bytes", val |-> BytesOf(consts, vs, kind, tn, recv)]
    /\ UNCHANGED <<pc, err, tn, output, recv>>
    /\ UNCHANGED locatorVars
    /\ UNCHANGED enumVars

CallDefined ==
    /\ pc = "done"
    /\ res' = [op |-> "Defined", val |-> DefinedOf(vs, recv)]
    /\ UNCHANGED <<pc, err, tn, output, recv>>
    /\ UNCHANGED locatorVars
    /\ UNCHANGED enumVars

CallMarshalText ==
    /\ pc = "done"
    /\ res' = [op |-> "MarshalText", val |-> MarshalTextOf(consts, vs, kind, tn, recv)]
    /\ UNCHANGED <<pc, err, tn, output, recv>>
    /\ UNCHANGED locatorVars
    /\ UNCHANGED enumVars

CallUnmarshalText ==
    /\ pc = "done"
    /\ \E x \in InputTexts :
          LET u == UnmarshalTextOf(consts, vs, tn, recv, x)
          IN  /\ recv' = u.recv
              /\ res' = [op |-> "UnmarshalText", val |-> [u EXCEPT !.recv = Nil]]
    /\ UNCHANGED <<pc, err, tn, output>>
    /\ UNCHANGED locatorVars
    /\ UNCHANGED enumVars

CallScan ==
    /\ pc = "done"
    /\ \E input \in InputTexts, readOk \in BOOLEAN :
          LET u == ScanOf(consts, vs, tn, recv, input, readOk)
          IN  /\ recv' = u.recv
              /\ res' = [op |-> "Scan", val |-> [u EXCEPT !.recv = Nil]]
    /\ UNCHANGED <<pc, err, tn, output>>
    /\ UNCHANGED locatorVars
    /\ UNCHANGED enumVars

Init ==
    /\ pc = "findTypeDecl"
    /\ err = ""
    /\ defs = {} /\ line = 0 /\ todo = {}
    /\ ret = NoObject /\ closestObject = NoObject /\ closest = MaxInt32
    /\ tn = <<>>
    /\ consts = <<>> /\ kind = "Unknown" /\ vs = <<>> /\ f = FALSE
    /\ output = "untouched"
    /\ recv = IntVal(0) /\ res = NoResult

Next ==
    \/ FindTypeDeclByPositionEnter
    \/ FindTypeDeclByPositionIterate
    \/ FindTypeDeclByPositionReturn
    \/ FindTypeDeclByName
    \/ FindConstantsOfType
    \/ GenerateEnumCode
    \/ OpenOutputFile
    \/ Render
    \/ ClientConvert
    \/ CallNext
    \/ CallString
    \/ CallBytes
    \/ CallDefined
    \/ CallMarshalText
    \/ CallUnmarshalText
    \/ CallScan

Spec == Init /\ [][Next]_vars

(* ======================= the claims, C1 to C10 ======================== *)
Declared == {consts[i].Raw : i \in 1..Len(consts)}          \* the members' raw values
DisplayStrings == {vs[i].String : i \in 1..Len(vs)}
GenerateReturned == vs # <<>> /\ pc # "generateEnumCode"   \* generateEnumCode has run

(* C1: round trip. In the generated code of every enumeration that passed   *)
(* validation, UnmarshalText applied to the bytes MarshalText returns for   *)
(* a member m succeeds and assigns exactly m.                               *)
C1_RoundTrip ==
    pc = "done" =>
        \A m \in Declared :
            LET u == UnmarshalTextOf(consts, vs, tn, recv,
                                     MarshalTextOf(consts, vs, kind, tn, m).bytes)
            IN  u.err = Nil /\ u.recv = m

RECURSIVE NextTimes(_, _)
NextTimes(k, r) == IF k = 0 THEN r ELSE NextOf(consts, vs, NextTimes(k - 1, r))

(* C2: cyclic closure of Next. With n validated members, Next applied n     *)
(* times to a declared member returns that member, and every intermediate   *)
(* result is a declared member.                                             *)
C2_NextCycle ==
    pc = "done" =>
        \A m \in Declared :
            /\ NextTimes(Len(vs), m) = m
            /\ \A k \in 1..Len(vs) : NextTimes(k, m) \in Declared

(* C3: Defined returns true for the raw value of every declared member,     *)
(* overridden or not, and false for every value that is no member's raw     *)
(* value.                                                                   *)
C3_Defined ==
    pc = "done" =>
        \A v \in ReceiverValues(kind) : DefinedOf(vs, v) <=> v \in Declared

(* C4: when two distinct members have the same raw declared value,          *)
(* generateEnumCode fails and produces no file, whether or not a member     *)
(* carries an override comment. (The formula accepts any error of the       *)
(* validation, not only the duplicate-value error the claim names.)         *)
C4_DuplicateValueRejected ==
    (GenerateReturned /\ \E i, j \in 1..Len(consts) :
                             i # j /\ consts[i].Raw = consts[j].Raw)
        => (~f /\ pc = "failed")

(* C5: lookup by position, for every order of the range over info.Defs:     *)
(* the type returned is a binding of the input file at or after the line    *)
(* with no binding of the file between the line and it; when the closest    *)
(* bindings hold no named type, or no binding lies at or after the line,    *)
(* nothing is returned (an error).                                          *)
Bindings == {o \in defs : o.what # "nilObject" /\ o.inFile /\ o.line >= line}
ClosestBindings == {o \in Bindings : \A p \in Bindings : o.line <= p.line}

C5_ClosestType ==
    RangeDone =>
        /\ ret # NoObject => (ret \in ClosestBindings /\ ret.what = "TypeName")
        /\ (\A o \in ClosestBindings : o.what # "TypeName") => ret = NoObject

(* C6: Scan. Scanning the text String() returns for a member m assigns m    *)
(* and returns no error; scanning a token that is no member's display       *)
(* string returns an error naming the type and the token.                   *)
C6_Scan ==
    pc = "done" =>
        /\ \A m \in Declared :
              LET u == ScanOf(consts, vs, tn, recv, StringOf(consts, vs, kind, tn, m), TRUE)
              IN  u.err = Nil /\ u.recv = m
        /\ \A input \in InputTexts :
              LET u == ScanOf(consts, vs, tn, recv, input, TRUE)
              IN  Token(input) \notin DisplayStrings
                      => (u.err # Nil /\ u.shown = Token(input) /\ u.type = tn)

(* C7: for every member of a validated enumeration the bytes Bytes returns  *)
(* are, as text, exactly the string String returns.                         *)
C7_BytesIsString ==
    pc = "done" =>
        \A m \in Declared :
            BytesOf(consts, vs, kind, tn, m) = StringOf(consts, vs, kind, tn, m)

(* C8: the output destination is opened, created, truncated or written      *)
(* only once rendering has succeeded, and a run that ends with an error     *)
(* leaves it untouched.                                                     *)
C8_OutputAfterRender ==
    /\ output # "untouched" => pc = "done"
    /\ pc = "failed" => output = "untouched"

(* C9: a member list in which the display string of one member equals the   *)
(* identifier of a different member is rejected, whichever of the two       *)
(* comes first: generateEnumCode fails and produces no file. (The formula   *)
(* accepts any error of the validation.)                                    *)
C9_StringCollidesWithName ==
    (GenerateReturned /\ \E i, j \in 1..Len(vs) : i # j /\ vs[i].String = vs[j].Name)
        => (~f /\ pc = "failed")

(* C10: the value the compile-time guard holds a constant against is the    *)
(* member's raw declared value at generation time: the bytes of the raw     *)
(* text for the text kind, the integer otherwise; also for a member with    *)
(* an override comment.                                                     *)
RawGuardValue(c, k) ==
    LET raw == ValueOfId(consts, c.Name)
    IN  IF k = "String" THEN raw.v ELSE ExactString(raw)

C10_GuardHoldsRawValue ==
    f => \A i \in 1..Len(vs) : GuardValue(vs[i], kind) = RawGuardValue(vs[i], kind)

(* ======================= the claims, C11 to C16 ======================= *)
(* C11: for a text-kind enumeration String returns the override comment's   *)
(* text for a member with an override comment, and the member's raw text    *)
(* for a member without one, under every naming strategy.                   *)
C11_TextString ==
    (pc = "done" /\ kind = "String") =>
        \A i \in 1..Len(consts) :
            LET lc == FindStringInLineComment(consts[i])
            IN  StringOf(consts, vs, kind, tn, consts[i].Raw)
                    = IF lc.ok THEN lc.str ELSE consts[i].Raw.v

(* The loop of the doc comment generateNextMethod writes on Next:           *)
(*     k := Kind(0)          (Kind("") for the text kind)                   *)
(*     for { fmt.Println(k); k = k.Next(); if k == Kind(0) { break } }      *)
(* res holds the values printed so far and whether the loop has stopped.    *)
DocLoopEnter ==
    /\ pc = "done"
    /\ res.op # "loop"
    /\ recv' = ZeroValue(kind)
    /\ res' = [op |-> "loop", printed |-> {}, stopped |-> FALSE]
    /\ UNCHANGED <<pc, err, tn, output>>
    /\ UNCHANGED locatorVars
    /\ UNCHANGED enumVars

DocLoopBody ==
    /\ pc = "done"
    /\ res.op = "loop"
    /\ ~res.stopped
    /\ recv' = NextOf(consts, vs, recv)
    /\ res' = [op |-> "loop", printed |-> res.printed \cup {recv},
               stopped |-> (recv' = ZeroValue(kind))]
    /\ UNCHANGED <<pc, err, tn, output>>
    /\ UNCHANGED locatorVars
    /\ UNCHANGED enumVars

(* A run of the command followed by the documented loop over the generated  *)
(* Next; the loop is sequential code, so its body runs whenever it can.     *)
LoopNext ==
    \/ FindTypeDeclByPositionEnter
    \/ FindTypeDeclByPositionIterate
    \/ FindTypeDeclByPositionReturn
    \/ FindTypeDeclByName
    \/ FindConstantsOfType
    \/ GenerateEnumCode
    \/ OpenOutputFile
    \/ Render
    \/ DocLoopEnter
    \/ DocLoopBody

LoopSpec == Init /\ [][LoopNext]_vars /\ WF_vars(DocLoopBody)

(* C12: the loop documented on Next, started from the zero value, stops for *)
(* every validated enumeration, and when it stops it has printed every      *)
(* declared member.                                                         *)
C12_DocLoop ==
    /\ (res.op = "loop") ~> (res.op = "loop" /\ res.stopped)
    /\ [](res.op = "loop" => (res.stopped => Declared \subseteq res.printed))

(* C13: for every value that is no declared member's raw value, Next        *)
(* returns the first declared member in source order.                       *)
C13_NextOfUndeclared ==
    pc = "done" =>
        \A v \in ReceiverValues(kind) \ Declared :
            NextOf(consts, vs, v) = consts[1].Raw

(* C15: findConstantsOfType returns the constants of the target type, each  *)
(* once, in the order of their declarations in the source, whatever the     *)
(* order of the range over info.Defs and whether or not members carry       *)
(* override comments.                                                       *)
C15_SourceOrder ==
    vs # <<>> =>
        /\ Len(vs) = Len(consts)
        /\ \A i \in 1..Len(vs) : vs[i].Name = consts[i].Name

(* C14: for an integral-kind enumeration String returns the display string  *)
(* of the member for the raw value of every declared member, and the type   *)
(* name followed by the value in parentheses for every other value.         *)
C14_IntString ==
    (pc = "done" /\ kind = "Int") =>
        /\ \A i \in 1..Len(consts), j \in 1..Len(vs) :
              vs[j].Name = consts[i].Name
                  => StringOf(consts, vs, kind, tn, consts[i].Raw) = vs[j].String
        /\ \A v \in ReceiverValues(kind) \ Declared :
              StringOf(consts, vs, kind, tn, v) = tn \o <<40>> \o Decimal(v.v) \o <<41>>

(* C16: a call of Scan or UnmarshalText that returns an error leaves the    *)
(* receiver as it was; a call that changes the receiver returned no error   *)
(* and left a declared member in it.                                        *)
C16_ErrorKeepsReceiver ==
    [][ res'.op \in {"Scan", "UnmarshalText"} =>
            /\ res'.val.err # Nil => recv' = recv
            /\ res'.val.err = Nil => recv' \in Declared ]_vars

(* Scan has returned an error on a receiver that held a value other than    *)
(* the zero value, and the receiver still holds it.                         *)
C16_ScanFailedOnSetReceiver ==
    /\ pc = "done"
    /\ res.op = "Scan"
    /\ res.val.err # Nil
    /\ recv # ZeroValue(kind)
====
